---- MODULE Spec2Model ----
(***************************************************************************)
(* Hybrid timetable engine: session expansion, the CP-SAT placement, the   *)
(* greedy room assignment and the genetic refinement, as one state machine *)
(* that follows generate_timetable stage by stage.                         *)
(*                                                                         *)
(* Python dictionaries keyed by session id are functions whose domain is   *)
(* the set of session ids; a later write under an id replaces the earlier. *)
(* Absent values (Python None) are the string "None".                      *)
(***************************************************************************)
EXTENDS Integers, Sequences, FiniteSets, TLC

VARIABLES inp, pc, sessions, feasible, used, sess_list, gpos, room_schedule,
          assignment, pop, hof, gen, result, error, prev

vars == <<inp, pc, sessions, feasible, used, sess_list, gpos, room_schedule,
          assignment, pop, hof, gen, result, error, prev>>

None == "None"

(* ------------------------------ bounds -------------------------------- *)
MaxDays == 2
MaxSlotsPerDay == 2
MaxWeeklySlots == 2
MaxConsecutive == 2
MaxSessions == 3
MaxCapacity == 2
MaxGen == 1

(* ----------------------- defaults of the program ---------------------- *)
DefaultMaxClassesPerDay == 5
DefaultMaxConsecSlots == 3
DefaultMaxWeeklyHours == 20
DefaultMaxDailyHours == 5
DefaultMinGroupDays == 3
DayBalanceNum == 2
DayBalanceDen == 5
GeneBase == 100

(* ------------------------------ helpers ------------------------------- *)
Min2(a, b) == IF a <= b THEN a ELSE b
Max2(a, b) == IF a >= b THEN a ELSE b

RECURSIVE SumOver(_, _)
SumOver(S, f) ==
    IF S = {} THEN 0
    ELSE LET x == CHOOSE y \in S : TRUE IN f[x] + SumOver(S \ {x}, f)

Range(s) == {s[i] : i \in DOMAIN s}

(* The lower-cased words a display name contains, for the tests           *)
(* 'lab' in name.lower(), 'project' in ..., 'elective' in ...             *)
NameWords(name) ==
    CASE name = "Physics Lab"   -> {"lab"}
      [] name = "Project Work"  -> {"project"}
      [] name = "Open Elective" -> {"elective"}
      [] name = "Lab1"          -> {"lab"}
      [] name = "Lab2"          -> {"lab"}
      [] OTHER                  -> {}

HasWord(word, name) == word \in NameWords(name)

(* ------------------------------ expansion ----------------------------- *)
\* groups = c["group"] if isinstance(c["group"], list) else [c["group"]]
GroupsOf(c) == IF c.group.is_list THEN c.group.ids ELSE <<c.group.id>>

\* (variant: a block course yields one block per weekly slot)
PairSessionsPerSlot(c, g) ==
    [i \in 1..c.weekly_slots |->
        [sess_id |-> <<c.id, g, IF c.consecutive = 1 THEN "s" ELSE "lab", i - 1>>,
         course_id |-> c.id, name |-> c.name, faculty |-> c.faculty,
         group |-> g, length |-> c.consecutive]]

\* the sessions one (course, group) pair contributes
PairSessions(c, g) ==
    IF c.consecutive = 1
    THEN [i \in 1..c.weekly_slots |->
            [sess_id |-> <<c.id, g, "s", i - 1>>, course_id |-> c.id,
             name |-> c.name, faculty |-> c.faculty, group |-> g,
             length |-> 1]]
    ELSE [i \in 1..(c.weekly_slots \div c.consecutive) |->
            [sess_id |-> <<c.id, g, "lab", i - 1>>, course_id |-> c.id,
             name |-> c.name, faculty |-> c.faculty, group |-> g,
             length |-> c.consecutive]]

RECURSIVE CourseSessions(_, _)
CourseSessions(c, gs) ==
    IF gs = <<>> THEN <<>>
    ELSE PairSessions(c, Head(gs)) \o CourseSessions(c, Tail(gs))

\* the divisibility test is reached only when k # 1 and the course has a group
CourseInvalid(c) ==
    c.consecutive # 1 /\ GroupsOf(c) # <<>>
        /\ c.weekly_slots % c.consecutive # 0

RECURSIVE expand_courses(_)
expand_courses(cs) ==
    IF cs = <<>> THEN [ok |-> TRUE, sessions |-> <<>>]
    ELSE IF CourseInvalid(Head(cs)) THEN [ok |-> FALSE, sessions |-> <<>>]
    ELSE LET rest == expand_courses(Tail(cs)) IN
         IF rest.ok
         THEN [ok |-> TRUE,
               sessions |-> CourseSessions(Head(cs), GroupsOf(Head(cs)))
                               \o rest.sessions]
         ELSE rest

(* --------------------- views of the session list ---------------------- *)
NSess == Len(sessions)
SessIdx == 1..NSess
SidSet == {sessions[i].sess_id : i \in SessIdx}
\* the entry a dictionary keyed by sess_id keeps: the last session of that id
LastIdx(sid) ==
    CHOOSE i \in SessIdx :
        /\ sessions[i].sess_id = sid
        /\ \A j \in SessIdx : sessions[j].sess_id = sid => j <= i
Survivors ==
    {i \in SessIdx :
        \A j \in SessIdx : j > i => sessions[j].sess_id # sessions[i].sess_id}
FacultiesOf(idxs) == {sessions[i].faculty : i \in idxs}
GroupsIn(idxs) == {sessions[i].group : i \in idxs}

NDays == inp.days
SlotsPerDay == inp.slots_per_day
TotalSlots == NDays * SlotsPerDay
NRooms == Len(inp.rooms)

(* ------------------------------ CP-SAT model -------------------------- *)
possible_starts(L) ==
    {d * SlotsPerDay + p : d \in 0..(NDays - 1), p \in 0..(SlotsPerDay - L)}

\* (variant: the starts differ, lengths not looked at)
DisjointIgnoringLength(st, i, j) == st[i] # st[j]

Disjoint(st, i, j) ==
    \/ st[i] + sessions[i].length <= st[j]
    \/ st[j] + sessions[j].length <= st[i]

\* AddNoOverlap over the intervals of one faculty and of one group
NoOverlapFaculty(st) ==
    \A i, j \in DOMAIN st :
        (i < j /\ sessions[i].faculty = sessions[j].faculty)
            => Disjoint(st, i, j)

NoOverlapGroup(st) ==
    \A i, j \in DOMAIN st :
        (i < j /\ sessions[i].group = sessions[j].group)
            => Disjoint(st, i, j)

LengthOf == [i \in SessIdx |-> sessions[i].length]

\* (variant: the number of sessions is summed, not their lengths)
WeeklyLoadCountsSessions ==
    \A f \in FacultiesOf(SessIdx) :
        Cardinality({i \in Survivors : sessions[i].faculty = f})
            <= inp.max_weekly_hours_per_faculty

WeeklyLoadOK ==
    \A f \in FacultiesOf(SessIdx) :
        SumOver({i \in Survivors : sessions[i].faculty = f}, LengthOf)
            <= inp.max_weekly_hours_per_faculty

DayOf(start) == start \div SlotsPerDay

FacultyDailyOK(st) ==
    \A f \in FacultiesOf(SessIdx) : \A d \in 0..(NDays - 1) :
        SumOver({i \in Survivors :
                    sessions[i].faculty = f /\ DayOf(st[i]) = d}, LengthOf)
            <= inp.max_daily_hours_per_faculty

\* (variant: every session counts 1 whatever its length)
GroupDailyCountsSessions(st) ==
    \A g \in GroupsIn(SessIdx) : \A d \in 0..(NDays - 1) :
        Cardinality({i \in Survivors :
                        sessions[i].group = g /\ DayOf(st[i]) = d})
            <= inp.max_classes_per_day

GroupDailyOK(st) ==
    \A g \in GroupsIn(SessIdx) : \A d \in 0..(NDays - 1) :
        SumOver({i \in Survivors :
                    sessions[i].group = g /\ DayOf(st[i]) = d}, LengthOf)
            <= inp.max_classes_per_day

\* is_on: the pair of enforced constraints makes it day_var == d
IsOnDay(st, i, d) == DayOf(st[i]) = d

UsedKeys == GroupsIn(SessIdx) \X (0..(NDays - 1))

\* (variant: only a false used is linked to the is_on booleans)
UsedLinkedOneWay(st, k, b) ==
    \A i \in {j \in Survivors : sessions[j].group = k[1]} :
        ~b => ~IsOnDay(st, i, k[2])

\* used[g, d] = b and its two links to the is_on booleans of the group
UsedLinked(st, k, b) ==
    LET mine == {i \in Survivors : sessions[i].group = k[1]} IN
    IF mine # {}
    THEN /\ b => \E i \in mine : IsOnDay(st, i, k[2])
         /\ ~b => \A i \in mine : ~IsOnDay(st, i, k[2])
    ELSE b = FALSE

EffectiveMin == Min2(inp.min_group_days, NDays)

\* (variant: one used day is enough whatever min_group_days is)
MinDaysOneDay(u) ==
    \A g \in GroupsIn(SessIdx) : \E d \in 0..(NDays - 1) : u[<<g, d>>]

\* model.Add(sum(used_day_bools) >= effective_min), for every group
MinDaysOK(u) ==
    \A g \in GroupsIn(SessIdx) :
        Cardinality({d \in 0..(NDays - 1) : u[<<g, d>>]}) >= EffectiveMin

\* start variables of the first n sessions, each over its own domain, kept
\* when the intervals created so far do not overlap
RECURSIVE StartVectors(_)
StartVectors(n) ==
    IF n = 0 THEN {<<>>}
    ELSE {st \in {Append(s, x) : s \in StartVectors(n - 1),
                                 x \in possible_starts(sessions[n].length)} :
            NoOverlapFaculty(st) /\ NoOverlapGroup(st)}

\* the constraints on the start variables alone
PlacementModel(st) ==
    /\ \A i \in SessIdx : st[i] \in possible_starts(sessions[i].length)
    /\ NoOverlapFaculty(st)
    /\ NoOverlapGroup(st)
    /\ WeeklyLoadOK
    /\ FacultyDailyOK(st)
    /\ GroupDailyOK(st)

Placements ==
    IF WeeklyLoadOK
    THEN {st \in StartVectors(NSess) : PlacementModel(st)}
    ELSE {}

\* the values of the used booleans the model admits beside st: a key's
\* boolean is fixed when the links allow one value, free when they allow both
UsedChoices(st) ==
    LET allowed == [k \in UsedKeys |-> {b \in BOOLEAN : UsedLinked(st, k, b)}]
        free == {k \in UsedKeys : allowed[k] = BOOLEAN}
    IN IF \E k \in UsedKeys : allowed[k] = {}
       THEN {}
       ELSE {u \in {[k \in UsedKeys |-> IF k \in free THEN k \in T
                                        ELSE TRUE \in allowed[k]] :
                        T \in SUBSET free} :
                MinDaysOK(u)}

\* result[sid] = (start, None): enforce_rooms is False in the wrapper
SolverResult(st) ==
    [sid \in SidSet |-> [start |-> st[LastIdx(sid)], room |-> None]]

(* ------------------------ greedy room assignment ---------------------- *)
GroupSizesGiven ==
    inp.group_sizes.given /\ DOMAIN inp.group_sizes.map # {}

\* group_sizes.get(group, 0)
SizeOf(g) ==
    IF g \in DOMAIN inp.group_sizes.map THEN inp.group_sizes.map[g] ELSE 0

\* sorted(sessions, key=(-length, -size)) is stable: position breaks ties
SortsBefore(i, j) ==
    LET li == sessions[i].length
        lj == sessions[j].length
        zi == SizeOf(sessions[i].group)
        zj == SizeOf(sessions[j].group)
    IN \/ li > lj
       \/ li = lj /\ zi > zj
       \/ li = lj /\ zi = zj /\ i < j

SortedSessions ==
    [k \in SessIdx |->
        CHOOSE i \in SessIdx :
            Cardinality({j \in SessIdx : SortsBefore(j, i)}) = k - 1]

PreferLab(s) == HasWord("lab", s.name) \/ HasWord("project", s.name)

\* True when the room sorts late: its kind is not the preferred one
RoomMismatch(s, r) == HasWord("lab", inp.rooms[r].name) # PreferLab(s)

\* (variant: the rooms are tried in list order, whatever their kind)
RoomSortsByIndex(s, a, b) == a < b

\* room_order.sort(key=mismatch) is stable: False before True, then position
RoomSortsBefore(s, a, b) ==
    \/ ~RoomMismatch(s, a) /\ RoomMismatch(s, b)
    \/ RoomMismatch(s, a) = RoomMismatch(s, b) /\ a < b

RoomOrder(s) ==
    [k \in 1..NRooms |->
        CHOOSE r \in 1..NRooms :
            Cardinality({q \in 1..NRooms : RoomSortsBefore(s, q, r)}) = k - 1]

SlotRange(start, length) == start..(start + length - 1)

\* (variant: the scan for a conflict stops one slot early)
RoomFitsShortScan(s, r, start, occupied) ==
    /\ ~(SizeOf(s.group) > inp.rooms[r].capacity)
    /\ SlotRange(start, s.length - 1) \cap occupied[r] = {}

\* (variant: the capacity is not looked at)
RoomFitsAnyCapacity(s, r, start, occupied) ==
    SlotRange(start, s.length) \cap occupied[r] = {}

\* the test of one room for one session against the occupied slots
RoomFits(s, r, start, occupied) ==
    /\ ~(SizeOf(s.group) > inp.rooms[r].capacity)
    /\ SlotRange(start, s.length) \cap occupied[r] = {}

\* the room the loop over room_order stops at, 0 when none fits: of the
\* rooms that pass the test, the one the sort puts before the others
FirstFit(s, start, occupied) ==
    LET fits == {r \in 1..NRooms : RoomFits(s, r, start, occupied)}
    IN IF fits = {} THEN 0
       ELSE CHOOSE r \in fits :
                \A q \in fits \ {r} : RoomSortsBefore(s, r, q)

(* ------------------------------- actions ------------------------------ *)
NoRooms == [r \in 1..NRooms |-> {}]
Unassigned == [state |-> "unset", map |-> <<>>]

FailContinues(kind) ==
    /\ pc' = "solved"
    /\ error' = kind

\* an exception leaves generate_timetable: nothing after the raise runs
Fail(kind) ==
    /\ pc' = "failed"
    /\ error' = kind

\* sessions = expand_courses(courses)
Expand ==
    /\ pc = "start"
    /\ LET e == expand_courses(inp.courses) IN
         IF e.ok
         THEN /\ sessions' = e.sessions
              /\ pc' = "expanded"
              /\ error' = error
         ELSE /\ Fail("InvalidInput")
              /\ sessions' = sessions
    /\ UNCHANGED <<inp, prev, feasible, used, sess_list, gpos, room_schedule, assignment,
                   pop, hof, gen, result>>

\* the solver has an empty start domain for a session longer than a day:
\* min(starts) raises before the model is solved
SolveDomainError ==
    /\ pc = "expanded"
    /\ \E i \in SessIdx : possible_starts(sessions[i].length) = {}
    /\ Fail("ValueError")
    /\ UNCHANGED <<inp, prev, sessions, feasible, used, sess_list, gpos, room_schedule,
                   assignment, pop, hof, gen, result>>

\* status OPTIMAL or FEASIBLE: any assignment of the model may come back
SolveFeasible ==
    /\ pc = "expanded"
    /\ SessIdx # {}
    /\ \A i \in SessIdx : possible_starts(sessions[i].length) # {}
    /\ \E st \in Placements : \E u \in UsedChoices(st) :
         /\ feasible' = SolverResult(st)
         /\ used' = u
    /\ pc' = "solved"
    /\ UNCHANGED <<inp, prev, sessions, sess_list, gpos, room_schedule, assignment,
                   pop, hof, gen, result, error>>

\* any other status (the model has no solution, or max_time ran out):
\* solve_with_ortools returns None, an empty result is falsy as well
SolveNone ==
    /\ pc = "expanded"
    /\ \A i \in SessIdx : possible_starts(sessions[i].length) # {}
    /\ Fail("Infeasible")
    /\ UNCHANGED <<inp, prev, sessions, feasible, used, sess_list, gpos, room_schedule,
                   assignment, pop, hof, gen, result>>

\* if assign_rooms and group_sizes: ... else the stage is skipped
SkipRooms ==
    /\ pc = "solved"
    /\ ~(inp.assign_rooms /\ GroupSizesGiven)
    /\ pc' = "rooms_done"
    /\ UNCHANGED <<inp, prev, sessions, feasible, used, sess_list, gpos, room_schedule,
                   assignment, pop, hof, gen, result, error>>

GreedyStart ==
    /\ pc = "solved"
    /\ inp.assign_rooms /\ GroupSizesGiven
    /\ sess_list' = SortedSessions
    /\ gpos' = 1
    /\ room_schedule' = NoRooms
    /\ assignment' = [state |-> "building", map |-> <<>>]
    /\ pc' = "greedy"
    /\ UNCHANGED <<inp, prev, sessions, feasible, used, pop, hof, gen, result, error>>

\* the caller's `if not assignment: print(...) else: for sid, rm in ...`
MergeRooms(f, a) ==
    IF a.map = <<>> THEN f
    ELSE [sid \in DOMAIN f |->
            IF sid \in DOMAIN a.map
            THEN [start |-> f[sid].start, room |-> a.map[sid]]
            ELSE f[sid]]

GreedyFailureKeepsMap(a) == [state |-> "failed", map |-> a.map]

\* `if not placed: return None`: the rooms given so far are dropped
GreedyFailure(a) == [state |-> "failed", map |-> <<>>]

\* (variant: the dictionary is rebound to the new entry alone)
AssignRoomOnly(map, sid, name) == [x \in {sid} |-> name]

\* assignment[sid] = room["name"]
AssignRoom(map, sid, name) ==
    [x \in DOMAIN map \cup {sid} |-> IF x = sid THEN name ELSE map[x]]

\* one turn of `for s in sess_list`
GreedyStep ==
    /\ pc = "greedy"
    /\ gpos <= Len(sess_list)
    /\ LET s == sessions[sess_list[gpos]]
           sid == s.sess_id
           start == feasible[sid].start
           r == FirstFit(s, start, room_schedule)
       IN IF r = 0
          THEN \* return None; the caller prints a warning and goes on
               /\ assignment' = GreedyFailure(assignment)
               /\ feasible' = MergeRooms(feasible, GreedyFailure(assignment))
               /\ pc' = "rooms_done"
               /\ UNCHANGED <<room_schedule, gpos, used>>
          ELSE /\ room_schedule' =
                     [room_schedule EXCEPT
                         ![r] = @ \cup SlotRange(start, s.length)]
               /\ assignment' =
                     [assignment EXCEPT
                         !.map = AssignRoom(@, sid, inp.rooms[r].name)]
               /\ gpos' = gpos + 1
               /\ UNCHANGED <<pc, feasible, used>>
    /\ UNCHANGED <<inp, prev, sessions, sess_list, pop, hof, gen, result, error>>

\* return assignment; feasible[sid] = (st, rm) for every assigned id
GreedyReturn ==
    /\ pc = "greedy"
    /\ gpos > Len(sess_list)
    /\ assignment' = [assignment EXCEPT !.state = "returned"]
    /\ feasible' = MergeRooms(feasible, assignment)
    /\ pc' = "rooms_done"
    /\ UNCHANGED <<inp, prev, sessions, used, sess_list, gpos, room_schedule, pop,
                   hof, gen, result, error>>

\* next(s for s in sessions if s['sess_id'] == sid)
FirstIdx(sid) ==
    CHOOSE i \in SessIdx :
        /\ sessions[i].sess_id = sid
        /\ \A j \in SessIdx : sessions[j].sess_id = sid => i <= j

ReturnFeasible ==
    /\ pc = "rooms_done"
    /\ ~inp.use_ga
    /\ result' =
          [sid \in DOMAIN feasible |->
              [start |-> feasible[sid].start, room |-> feasible[sid].room,
               length |-> sessions[FirstIdx(sid)].length,
               meta |-> sessions[FirstIdx(sid)]]]
    /\ pc' = "done"
    /\ UNCHANGED <<inp, prev, sessions, feasible, used, sess_list, gpos, room_schedule,
                   assignment, pop, hof, gen, error>>

(* ------------------------------ GA fitness ---------------------------- *)
\* decode(g) = divmod(g, 100), then the clamps of ga_fitness
GeneStart(g) == g \div GeneBase
GeneRoom(g) == g % GeneBase
ClampStart(g) == Max2(0, Min2(GeneStart(g), TotalSlots - 1))
ClampRoom(g) == Max2(0, Min2(GeneRoom(g), NRooms - 1))

\* slots a session occupies under genome ind
OccSlots(ind, i) == SlotRange(ClampStart(ind[i]), sessions[i].length)
FitRoomName(ind, i) == inp.rooms[ClampRoom(ind[i]) + 1].name
SlotUniverse(ind) == UNION {OccSlots(ind, i) : i \in Survivors}

\* 200 * (len(v) - 1) for every key (resource, slot) with more than one id
ResourceOf(ind, i, kind) ==
    CASE kind = "faculty" -> sessions[i].faculty
      [] kind = "group" -> sessions[i].group
      [] OTHER -> FitRoomName(ind, i)

OverlapPenalty(ind, kind) ==
    LET keys == {<<i, t>> \in Survivors \X SlotUniverse(ind) :
                    /\ t \in OccSlots(ind, i)
                    /\ \A j \in Survivors :
                          (/\ ResourceOf(ind, i, kind) = ResourceOf(ind, j, kind)
                           /\ t \in OccSlots(ind, j)) => i <= j}
        extra == [k \in keys |->
                    Cardinality({j \in Survivors :
                        /\ ResourceOf(ind, k[1], kind) = ResourceOf(ind, j, kind)
                        /\ k[2] \in OccSlots(ind, j)}) - 1]
    IN 200 * SumOver(keys, extra)

\* (variant: only the first slot of a session is recorded)
DaySlotsStartOnly(ind, g, d) ==
    {ClampStart(ind[i]) % SlotsPerDay :
        i \in {j \in Survivors :
                 sessions[j].group = g /\ DayOf(ClampStart(ind[j])) = d}}

\* group_daily_slots[group][day]: in-day positions, as a set
DaySlots(ind, g, d) ==
    UNION {{(ClampStart(ind[i]) % SlotsPerDay) + off :
                off \in 0..(sessions[i].length - 1)} :
           i \in {j \in Survivors :
                    sessions[j].group = g
                        /\ DayOf(ClampStart(ind[j])) = d}}

DaysUsed(ind, g) ==
    {DayOf(ClampStart(ind[i])) : i \in {j \in Survivors : sessions[j].group = g}}

GroupDayKeys(ind) ==
    UNION {{<<g, d>> : d \in DaysUsed(ind, g)} : g \in GroupsIn(Survivors)}

Excess(x, cap) == IF x > cap THEN x - cap ELSE 0

GroupOverflowPenalty(ind) ==
    LET keys == GroupDayKeys(ind)
        over == [k \in keys |->
                    Excess(Cardinality(DaySlots(ind, k[1], k[2])),
                           inp.max_classes_per_day)]
    IN 300 * SumOver(keys, over)

CapacityPenalty(ind) ==
    IF ~GroupSizesGiven THEN 0
    ELSE LET pen == [i \in Survivors |->
                LET size == SizeOf(sessions[i].group)
                    cap == inp.rooms[ClampRoom(ind[i]) + 1].capacity
                IN IF size > cap THEN 500 + 10 * (size - cap) ELSE 0]
         IN SumOver(Survivors, pen)

HardPenalty(ind) ==
    OverlapPenalty(ind, "faculty")
    + OverlapPenalty(ind, "group")
    + OverlapPenalty(ind, "room")
    + GroupOverflowPenalty(ind)
    + CapacityPenalty(ind)

RECURSIVE Gcd(_, _)
Gcd(a, b) == IF b = 0 THEN a ELSE Gcd(b, a % b)
RECURSIVE LcmUpTo(_)
LcmUpTo(n) ==
    IF n <= 1 THEN 1
    ELSE LET m == LcmUpTo(n - 1) IN (m * n) \div Gcd(m, n)

\* variances are fractions over n*n: every fitness is kept multiplied by
\* 20 * VarScale, which makes each term an integer
VarScale == LET m == LcmUpTo(Max2(NSess, NDays)) IN m * m

\* VarScale * (sum((x - avg) ** 2) / n) for the values f[k], k in S
ScaledVariance(S, f) ==
    IF S = {} THEN 0
    ELSE LET n == Cardinality(S)
             sq == [k \in S |-> f[k] * f[k]]
             tot == SumOver(S, f)
         IN (n * SumOver(S, sq) - tot * tot) * (VarScale \div (n * n))

FacultyVariance ==
    LET fs == FacultiesOf(Survivors)
        hours == [f \in fs |->
                    SumOver({i \in Survivors : sessions[i].faculty = f},
                            LengthOf)]
    IN ScaledVariance(fs, hours)

\* idle slot between two occupied positions of one group on one day
DayGaps(slots) ==
    Cardinality({x \in slots :
        /\ \E y \in slots : y > x
        /\ (x + 1) \notin slots})

\* consec counts the run ending at x; the test sits in the increment branch
RunLength(slots, x) ==
    Cardinality({k \in 0..x : \A m \in 0..k : (x - m) \in slots})

ConsecPenalty(slots) ==
    LET pen == [x \in slots |->
                  IF (x - 1) \in slots
                  THEN 10 * Excess(RunLength(slots, x), inp.max_consec_slots)
                  ELSE 0]
    IN SumOver(slots, pen)

FacultyDailyPenalty(ind) ==
    LET keys == {<<sessions[i].faculty, DayOf(ClampStart(ind[i]))>> :
                    i \in Survivors}
        load == [k \in keys |->
                    SumOver({i \in Survivors :
                                /\ sessions[i].faculty = k[1]
                                /\ DayOf(ClampStart(ind[i])) = k[2]}, LengthOf)]
        pen == [k \in keys |->
                    10 * Excess(load[k], inp.max_daily_hours_per_faculty)]
    IN SumOver(keys, pen)

\* math.ceil(day_balance_fraction * total_sessions)
DayShare(total) == (DayBalanceNum * total + DayBalanceDen - 1) \div DayBalanceDen

\* the day-fraction term and the span term of one group
BalancePenalty(ind, g) ==
    LET days == DaysUsed(ind, g)
        cnt == [d \in days |-> Cardinality(DaySlots(ind, g, d))]
        total == SumOver(days, cnt)
        frac == [d \in days |-> 100 * Excess(cnt[d], DayShare(total))]
        mine == {i \in Survivors : sessions[i].group = g}
        \* all_slots holds one entry per occupied slot of every session:
        \* the differences of the sorted list telescope to max - min
        n == SumOver(mine, LengthOf)
        all == UNION {DaySlots(ind, g, d) : d \in days}
        hi == CHOOSE x \in all : \A y \in all : y <= x
        lo == CHOOSE x \in all : \A y \in all : x <= y
    IN IF total <= 0 THEN 0
       ELSE SumOver(days, frac) + 2 * ((hi - lo) - (n - 1))

PrefPenalty(ind, prefs) ==
    LET pen == [i \in Survivors |->
                LET f == sessions[i].faculty
                    p == ClampStart(ind[i]) % SlotsPerDay
                    morning == p \in 0..((SlotsPerDay \div 2) - 1)
                    afternoon == p \in (SlotsPerDay \div 2)..(SlotsPerDay - 1)
                IN IF f \notin DOMAIN prefs THEN 0
                   ELSE IF prefs[f] = "morning" /\ ~morning THEN 20
                   ELSE IF prefs[f] = "afternoon" /\ ~afternoon THEN 20
                   ELSE 0]
    IN SumOver(Survivors, pen)

\* VarScale * soft_penalty; prefs is the faculty_prefs argument ({} if None)
SoftPenalty(ind, prefs) ==
    LET keys == GroupDayKeys(ind)
        gs == GroupsIn(Survivors)
        gaps == [k \in keys |-> DayGaps(DaySlots(ind, k[1], k[2]))]
        cons == [k \in keys |-> ConsecPenalty(DaySlots(ind, k[1], k[2]))]
        gvar == [g \in gs |->
                   ScaledVariance(DaysUsed(ind, g),
                       [d \in DaysUsed(ind, g) |->
                           Cardinality(DaySlots(ind, g, d))])]
        bal == [g \in gs |-> BalancePenalty(ind, g)]
    IN FacultyVariance
       + 5 * SumOver(gs, gvar)
       + VarScale * ( SumOver(keys, gaps) + SumOver(keys, cons)
                      + FacultyDailyPenalty(ind) + SumOver(gs, bal)
                      + PrefPenalty(ind, prefs) )

\* 20 * VarScale * (hard_penalty + 0.05 * soft_penalty)
ga_fitness(ind, prefs) ==
    20 * VarScale * HardPenalty(ind) + SoftPenalty(ind, prefs)

\* the evaluate registered by generate_timetable: faculty_prefs and
\* elective_groups are not among the partial's arguments
Evaluate(ind) == ga_fitness(ind, <<>>)

(* ------------------------------ GA set-up ----------------------------- *)
\* encode of generate_timetable: a room name becomes the first index that
\* carries it (0 when none does), an absent room becomes 0
RoomIndexOf(room) ==
    LET hits == {r \in 1..NRooms : inp.rooms[r].name = room} IN
    IF room = None \/ hits = {} THEN 0
    ELSE (CHOOSE r \in hits : \A q \in hits : r <= q) - 1

encode(start, room) == start * GeneBase + RoomIndexOf(room)

SeedGenome ==
    [i \in SessIdx |->
        encode(feasible[sessions[i].sess_id].start,
               feasible[sessions[i].sess_id].room)]

\* init_ind: rooms of the session's kind, all rooms when there is none
PossRooms(s) ==
    LET match == {r \in 0..(NRooms - 1) :
                    HasWord("lab", s.name) = HasWord("lab", inp.rooms[r + 1].name)}
    IN IF match = {} THEN 0..(NRooms - 1) ELSE match

GeneChoices(s) ==
    {st * GeneBase + r : st \in possible_starts(s.length), r \in PossRooms(s)}

RandomGenomes ==
    {g \in [SessIdx -> UNION {GeneChoices(sessions[i]) : i \in SessIdx}] :
        \A i \in SessIdx : g[i] \in GeneChoices(sessions[i])}

\* HallOfFame(1).update: a strictly better fitness replaces the holder
\* (an entry keeps the fitness it was evaluated with)
HofEntry(ind) == [ind |-> ind, fit |-> Evaluate(ind)]

\* (variant: the holder is whatever was evaluated last)
RECURSIVE HofKeepsLast(_, _)
HofKeepsLast(h, inds) ==
    IF inds = <<>> THEN h
    ELSE HofKeepsLast(<<HofEntry(Head(inds))>>, Tail(inds))

\* (variant: an equal fitness replaces the holder as well)
RECURSIVE HofUpdateOnTies(_, _)
HofUpdateOnTies(h, inds) ==
    IF inds = <<>> THEN h
    ELSE LET e == HofEntry(Head(inds))
             h2 == IF h = <<>> THEN <<e>>
                   ELSE IF e.fit <= h[1].fit /\ e.ind # h[1].ind
                        THEN <<e>>
                        ELSE h
         IN HofUpdateOnTies(h2, Tail(inds))

RECURSIVE HofUpdate(_, _)
HofUpdate(h, inds) ==
    IF inds = <<>> THEN h
    ELSE LET e == HofEntry(Head(inds))
             h2 == IF h = <<>> THEN <<e>>
                   ELSE IF e.fit < h[1].fit /\ e.ind # h[1].ind
                        THEN <<e>>
                        ELSE h
         IN HofUpdate(h2, Tail(inds))

\* cxTwoPoint: 1 <= a < b <= size, the slice [a:b] (0-based) changes hands
CxPoints == {<<a, b>> \in (1..NSess) \X (1..NSess) : a < b}

\* (variant: a blending crossover, the slice takes the mean of the parents)
CrossedBlend(x, y, cut) ==
    [i \in SessIdx |->
        IF cut[1] < i /\ i <= cut[2] THEN (x[i] + y[i]) \div 2 ELSE x[i]]

Crossed(x, y, cut) ==
    [i \in SessIdx |-> IF cut[1] < i /\ i <= cut[2] THEN y[i] ELSE x[i]]

Swap(x, i, j) ==
    [k \in DOMAIN x |-> IF k = i THEN x[j] ELSE IF k = j THEN x[i] ELSE x[k]]

\* mutShuffleIndexes from position i on: each position in turn is left alone
\* or exchanged with any other position
RECURSIVE ShuffleFrom(_, _)
ShuffleFrom(x, i) ==
    IF i > Len(x) THEN {x}
    ELSE ShuffleFrom(x, i + 1)
         \cup UNION {ShuffleFrom(Swap(x, i, j), i + 1) :
                        j \in (1..Len(x)) \ {i}}

\* varAnd on the pair (x, y): mate or not, then mutate or not, each
MatePair(x, y) ==
    {<<x, y>>} \cup {<<Crossed(x, y, c), Crossed(y, x, c)>> : c \in CxPoints}

VaryPair(x, y) ==
    UNION {ShuffleFrom(m[1], 1) \X ShuffleFrom(m[2], 1) : m \in MatePair(x, y)}

\* the offspring lists one generation can produce from population p:
\* tournaments may return any member, neighbours are mated pairwise
RECURSIVE Offspring(_, _)
Offspring(p, k) ==
    IF k > Len(p) THEN {<<>>}
    ELSE IF k = Len(p)
    THEN {<<m>> : m \in UNION {ShuffleFrom(p[a], 1) : a \in 1..Len(p)}}
    ELSE LET pairs == UNION {VaryPair(p[a], p[b]) :
                                a \in 1..Len(p), b \in 1..Len(p)}
         IN {<<pr[1], pr[2]>> \o rest :
                pr \in pairs, rest \in Offspring(p, k + 2)}

\* (variant: idx is not advanced, every entry describes the first session)
decode_indFirstMeta(ind) ==
    [sid \in SidSet |->
        [start |-> GeneStart(ind[LastIdx(sid)]),
         room |-> inp.rooms[GeneRoom(ind[LastIdx(sid)]) + 1].name,
         length |-> sessions[1].length,
         meta |-> sessions[1]]]

\* decode_ind(hof[0])
decode_ind(ind) ==
    [sid \in SidSet |->
        [start |-> GeneStart(ind[LastIdx(sid)]),
         room |-> inp.rooms[GeneRoom(ind[LastIdx(sid)]) + 1].name,
         length |-> sessions[LastIdx(sid)].length,
         meta |-> sessions[LastIdx(sid)]]]

\* population(n=pop_size), pop[0] = seed_ind, evaluation, hof.update(pop)
GAInit ==
    /\ pc = "rooms_done"
    /\ inp.use_ga
    /\ \E rest \in [1..(inp.pop_size - 1) -> RandomGenomes] :
          /\ pop' = <<SeedGenome>> \o rest
          /\ hof' = HofUpdate(<<>>, <<SeedGenome>> \o rest)
    /\ gen' = 0
    /\ pc' = "ga"
    /\ UNCHANGED <<inp, prev, sessions, feasible, used, sess_list, gpos, room_schedule,
                   assignment, result, error>>

\* one generation of eaSimple: select, varAnd, evaluate, hof.update
GAGeneration ==
    /\ pc = "ga"
    /\ gen < inp.ngen
    /\ NSess > 1
    /\ \E off \in Offspring(pop, 1) :
          /\ pop' = off
          /\ hof' = HofUpdate(hof, off)
    /\ gen' = gen + 1
    /\ UNCHANGED <<inp, prev, pc, sessions, feasible, used, sess_list, gpos,
                   room_schedule, assignment, result, error>>

\* with a single session randint(1, 0) in cxTwoPoint and randint(0, -1) in
\* mutShuffleIndexes raise; a generation that draws neither goes through
GAGenerationSingle ==
    /\ pc = "ga"
    /\ gen < inp.ngen
    /\ NSess = 1
    /\ \/ /\ \E off \in [1..Len(pop) -> Range(pop)] :
                /\ pop' = off
                /\ hof' = HofUpdate(hof, off)
          /\ gen' = gen + 1
          /\ UNCHANGED <<pc, error>>
       \/ /\ Fail("ValueError")
          /\ UNCHANGED <<pop, hof, gen>>
    /\ UNCHANGED <<inp, prev, sessions, feasible, used, sess_list, gpos, room_schedule,
                   assignment, result>>

GADecode ==
    /\ pc = "ga"
    /\ gen = inp.ngen
    /\ result' = decode_ind(hof[1].ind)
    /\ pc' = "done"
    /\ UNCHANGED <<inp, prev, sessions, feasible, used, sess_list, gpos, room_schedule,
                   assignment, pop, hof, gen, error>>

(* ------------------------------- inputs ------------------------------- *)
Faculties == {"F1", "F2"}
Groups == {"G1", "G2"}
One(g) == [is_list |-> FALSE, id |-> g]
Many(gs) == [is_list |-> TRUE, ids |-> gs]
NoSizes == [given |-> FALSE, map |-> <<>>]
Sizes(m) == [given |-> TRUE, map |-> m]

CourseShapes(ids, names, facs, grps) ==
    [id : ids, name : names, faculty : facs, group : grps,
     weekly_slots : 1..MaxWeeklySlots, consecutive : 1..MaxConsecutive]

NumSessions(cs) == Len(expand_courses(cs).sessions)

BaseInput ==
    [courses |-> <<>>, rooms |-> <<[name |-> "R1", capacity |-> MaxCapacity]>>,
     days |-> 1, slots_per_day |-> 1, ngen |-> 0, pop_size |-> 1,
     max_classes_per_day |-> DefaultMaxClassesPerDay,
     max_consec_slots |-> DefaultMaxConsecSlots,
     max_weekly_hours_per_faculty |-> DefaultMaxWeeklyHours,
     max_daily_hours_per_faculty |-> DefaultMaxDailyHours,
     group_sizes |-> NoSizes, faculty_prefs |-> <<>>,
     use_ga |-> FALSE, assign_rooms |-> TRUE,
     min_group_days |-> DefaultMinGroupDays]

\* course lists of one or two courses; the first course names F1 and G1
\* first (faculties and groups are interchangeable)
CourseLists(names) ==
    LET first == CourseShapes({"C1"}, names, {"F1"},
                              {One("G1"), Many(<<"G1", "G2">>)})
        second == CourseShapes({"C2"}, names, Faculties,
                               {One("G1"), One("G2"), Many(<<"G1", "G2">>)})
    IN {cs \in {<<a>> : a \in first} \cup {<<a, b>> : a \in first, b \in second} :
            NumSessions(cs) <= MaxSessions}

\* limits of a run: the defaults, each cap tightened alone, both daily caps
\* tightened, and the group cap tightened with the default minimum of days
LimitProfiles ==
    {[mc |-> DefaultMaxClassesPerDay, md |-> DefaultMaxDailyHours,
      mw |-> DefaultMaxWeeklyHours, mg |-> mg] : mg \in {1, DefaultMinGroupDays}}
    \cup {[mc |-> 1, md |-> DefaultMaxDailyHours,
           mw |-> DefaultMaxWeeklyHours, mg |-> mg] : mg \in {1, DefaultMinGroupDays}}
    \cup {[mc |-> DefaultMaxClassesPerDay, md |-> 1,
           mw |-> DefaultMaxWeeklyHours, mg |-> 1],
          [mc |-> 1, md |-> 1, mw |-> DefaultMaxWeeklyHours, mg |-> 1],
          [mc |-> DefaultMaxClassesPerDay, md |-> DefaultMaxDailyHours,
           mw |-> 1, mg |-> 1]}

\* placement only: calendars, course lists and limits vary
SolverInputs ==
    {[BaseInput EXCEPT
        !.courses = cs, !.days = d, !.slots_per_day = p,
        !.max_classes_per_day = l.mc, !.max_daily_hours_per_faculty = l.md,
        !.max_weekly_hours_per_faculty = l.mw, !.min_group_days = l.mg] :
     cs \in CourseLists({"Math"}), d \in 1..MaxDays, p \in 1..MaxSlotsPerDay,
     l \in LimitProfiles}

RoomNameLists ==
    {<<"R1">>, <<"Lab1">>, <<"R1", "R2">>, <<"R1", "Lab1">>, <<"Lab1", "R1">>}

RoomLists ==
    UNION {{[i \in 1..Len(nl) |-> [name |-> nl[i], capacity |-> c[i]]] :
                c \in [1..Len(nl) -> 1..MaxCapacity]} : nl \in RoomNameLists}

\* a group may be larger than every room
SizeMaps == {Sizes(m) : m \in [Groups -> 1..(MaxCapacity + 1)]}

\* two courses of one session each, for two cohorts with their own teachers,
\* so that the two sessions may share a slot
TwoSessionLists ==
    {cs \in {<<a, b>> :
                a \in CourseShapes({"C1"}, {"Math", "Physics Lab"}, {"F1"},
                                   {One("G1")}),
                b \in CourseShapes({"C2"}, {"Math", "Physics Lab"}, {"F2"},
                                   {One("G2")})} :
        expand_courses(cs).ok /\ NumSessions(cs) = 2}

\* room assignment on a one-day calendar: rooms, sizes and kinds vary
RoomInputs ==
    {[BaseInput EXCEPT
        !.courses = cs, !.rooms = rs, !.days = 1,
        !.slots_per_day = MaxSlotsPerDay, !.group_sizes = gs,
        !.assign_rooms = ar] :
     cs \in TwoSessionLists, rs \in RoomLists, gs \in SizeMaps,
     ar \in BOOLEAN}

\* refinement of the two-session lists on a one-day calendar, up to
\* MaxGen generations
GAPairInputs ==
    {[BaseInput EXCEPT
        !.courses = cs, !.rooms = rs, !.days = 1,
        !.slots_per_day = MaxSlotsPerDay, !.group_sizes = gs,
        !.use_ga = TRUE, !.ngen = ng, !.pop_size = 2] :
     cs \in TwoSessionLists,
     rs \in {r \in RoomLists :
                /\ r[1] = [name |-> "R1", capacity |-> 1]
                /\ r[Len(r)].capacity = Len(r)},
     gs \in {NoSizes, Sizes([g \in Groups |-> IF g = "G1" THEN MaxCapacity ELSE 1]),
             Sizes([g \in Groups |-> MaxCapacity + 1])},
     ng \in 0..MaxGen}

\* refinement of a seeded population (no generation) over several days:
\* one cohort's lectures, rooms of two capacities, rooms assigned or not
GAWeekInputs ==
    {[BaseInput EXCEPT
        !.courses = <<c>>, !.days = MaxDays, !.slots_per_day = p,
        !.rooms = <<[name |-> "R1", capacity |-> 1],
                    [name |-> "R2", capacity |-> MaxCapacity]>>,
        !.group_sizes = Sizes([g \in Groups |-> MaxCapacity]),
        !.assign_rooms = ar, !.min_group_days = mg,
        !.use_ga = TRUE, !.ngen = 0, !.pop_size = 2] :
     c \in {x \in CourseShapes({"C1"}, {"Math"}, {"F1"}, {One("G1")}) :
                x.consecutive = 1},
     p \in 1..MaxSlotsPerDay, ar \in BOOLEAN,
     mg \in {1, DefaultMinGroupDays}}

\* a single session: the variation operators cannot draw their cut points
GASingleInputs ==
    {[BaseInput EXCEPT
        !.courses = <<c>>, !.days = d, !.slots_per_day = MaxSlotsPerDay,
        !.min_group_days = 1, !.use_ga = TRUE, !.ngen = ng, !.pop_size = ps] :
     c \in {x \in CourseShapes({"C1"}, {"Math"}, {"F1"}, {One("G1")}) :
                x.weekly_slots = x.consecutive},
     d \in 1..MaxDays, ng \in 0..MaxGen, ps \in 1..2}

\* refinement with a time-of-day preference of the first teacher
GAPrefInputs ==
    {[BaseInput EXCEPT
        !.courses = cs, !.days = 1, !.slots_per_day = MaxSlotsPerDay,
        !.faculty_prefs = [f \in {"F1"} |-> pref],
        !.use_ga = TRUE, !.ngen = 0, !.pop_size = 2] :
     cs \in {c \in TwoSessionLists :
                \A i \in 1..Len(c) : c[i].name = "Math" /\ c[i].consecutive = 1},
     pref \in {"morning", "afternoon"}}

\* a course that names no group at all (an empty group list), alone or
\* before an ordinary course
NoGroupInputs ==
    {[BaseInput EXCEPT
        !.courses = cs, !.days = 1, !.slots_per_day = MaxSlotsPerDay] :
     cs \in LET a == CourseShapes({"C1"}, {"Math"}, {"F1"}, {Many(<<>>)})
                b == {x \in CourseShapes({"C2"}, {"Math"}, {"F2"}, {One("G2")}) :
                        x.consecutive = 1}
            IN {<<x>> : x \in a} \cup {<<x, y>> : x \in a, y \in b}}

Inputs ==
    SolverInputs \cup RoomInputs \cup GAPairInputs \cup GAWeekInputs
        \cup GASingleInputs \cup NoGroupInputs \cup GAPrefInputs

\* what an earlier call with the same arguments returned, if there was one
NoCall == [called |-> FALSE, result |-> <<>>]

Start(inputs) ==
    /\ inp \in inputs
    /\ pc = "start"
    /\ sessions = <<>>
    /\ feasible = <<>>
    /\ used = <<>>
    /\ sess_list = <<>>
    /\ gpos = 0
    /\ room_schedule = <<>>
    /\ assignment = Unassigned
    /\ pop = <<>>
    /\ hof = <<>>
    /\ gen = 0
    /\ result = <<>>
    /\ error = None
    /\ prev = NoCall

Init == Start(Inputs)

Next ==
    \/ Expand
    \/ SolveDomainError
    \/ SolveFeasible
    \/ SolveNone
    \/ SkipRooms
    \/ GreedyStart
    \/ GreedyStep
    \/ GreedyReturn
    \/ ReturnFeasible
    \/ GAInit
    \/ GAGeneration
    \/ GAGenerationSingle
    \/ GADecode

Spec == Init /\ [][Next]_vars

\* the runs that stop after placement and room assignment (use_ga False)
PlacementInit == Start(SolverInputs \cup RoomInputs \cup NoGroupInputs)

PlacementNext ==
    \/ Expand
    \/ SolveDomainError
    \/ SolveFeasible
    \/ SolveNone
    \/ SkipRooms
    \/ GreedyStart
    \/ GreedyStep
    \/ GreedyReturn
    \/ ReturnFeasible

PlacementSpec == PlacementInit /\ [][PlacementNext]_vars

\* two calls with the same arguments, one after the other: the locals of
\* the first call are gone, only what it returned is kept for comparison
CallAgain ==
    /\ pc = "done"
    /\ ~prev.called
    /\ prev' = [called |-> TRUE, result |-> result]
    /\ pc' = "start"
    /\ sessions' = <<>>
    /\ feasible' = <<>>
    /\ used' = <<>>
    /\ sess_list' = <<>>
    /\ gpos' = 0
    /\ room_schedule' = <<>>
    /\ assignment' = Unassigned
    /\ pop' = <<>>
    /\ hof' = <<>>
    /\ gen' = 0
    /\ result' = <<>>
    /\ error' = None
    /\ UNCHANGED inp

\* two cohorts with their own teachers and one session each that fills the
\* day: the solver has a single placement to return (both sessions at slot
\* 0), and no session is longer than the day or alone in its genome
TwiceInputs ==
    {[BaseInput EXCEPT
        !.courses = cs, !.rooms = rs, !.days = 1,
        !.slots_per_day = MaxSlotsPerDay, !.group_sizes = gs,
        !.use_ga = ga, !.ngen = ng, !.pop_size = 2] :
     cs \in {c \in TwoSessionLists :
                \A i \in 1..Len(c) : c[i].consecutive = MaxSlotsPerDay},
     rs \in {r \in RoomLists : \A i \in 1..Len(r) : r[i].capacity = i},
     gs \in {NoSizes, Sizes([g \in Groups |-> 1])},
     ga \in BOOLEAN, ng \in 0..MaxGen}

TwiceInit == Start(TwiceInputs)

TwiceNext ==
    \/ Expand
    \/ SolveFeasible
    \/ SolveNone
    \/ SkipRooms
    \/ GreedyStart
    \/ GreedyStep
    \/ GreedyReturn
    \/ ReturnFeasible
    \/ GAInit
    \/ GAGeneration
    \/ GADecode
    \/ CallAgain

TwiceSpec == TwiceInit /\ [][TwiceNext]_vars

\* two courses under one id, and room lists that repeat a name
DupInputs ==
    {[BaseInput EXCEPT
        !.courses = cs, !.rooms = rs, !.days = 1, !.slots_per_day = p,
        !.group_sizes = gs, !.min_group_days = 1] :
     cs \in {c \in {<<a, b>> :
                      a \in CourseShapes({"C1"}, {"Math"}, {"F1"}, {One("G1")}),
                      b \in CourseShapes({"C1", "C2"}, {"Math"}, {"F2"},
                                         {One("G1"), One("G2")})} :
                NumSessions(c) <= MaxSessions},
     rs \in {r \in RoomLists : r[1].capacity = 1}
            \cup {<<[name |-> "R1", capacity |-> 1],
                    [name |-> "R1", capacity |-> MaxCapacity]>>},
     p \in 1..MaxSlotsPerDay,
     gs \in {NoSizes, Sizes([g \in Groups |-> 1])}}

DupInit == Start(DupInputs)

DupSpec == DupInit /\ [][PlacementNext]_vars

\* a room list one longer than the multiplier of the gene encoding: only
\* the last room holds a full cohort; the population is the seed alone
WideRooms ==
    [k \in 1..(GeneBase + 1) |->
        [name |-> "R" \o ToString(k),
         capacity |-> IF k > GeneBase THEN MaxCapacity ELSE 1]]

WideInputs ==
    {[BaseInput EXCEPT
        !.courses = cs, !.rooms = WideRooms, !.days = d,
        !.slots_per_day = MaxSlotsPerDay, !.group_sizes = gs,
        !.min_group_days = 1, !.use_ga = TRUE, !.ngen = 0, !.pop_size = 1] :
     cs \in {c \in TwoSessionLists : \A i \in 1..Len(c) : c[i].name = "Math"},
     d \in 1..MaxDays,
     gs \in {Sizes([g \in Groups |-> IF g = "G1" THEN z ELSE 1]) :
                z \in 1..MaxCapacity}}

WideInit == Start(WideInputs)

WideNext ==
    \/ Expand
    \/ SolveFeasible
    \/ SolveNone
    \/ GreedyStart
    \/ GreedyStep
    \/ GreedyReturn
    \/ GAInit
    \/ GADecode

WideSpec == WideInit /\ [][WideNext]_vars

(* ---------------------------- detect_clashes --------------------------- *)
SessType(name) ==
    IF HasWord("lab", name) \/ HasWord("project", name) THEN "lab"
    ELSE IF HasWord("elective", name) THEN "elective"
    ELSE "lecture"

EntrySlots(e) == SlotRange(e.start, e.length)

\* keys (resource, slot) that more than one entry of the schedule occupies
EntryResource(e, kind) ==
    CASE kind = "faculty" -> e.meta.faculty
      [] kind = "group" -> e.meta.group
      [] OTHER -> e.room

SharedKeys(schedule, kind) ==
    {<<EntryResource(schedule[a], kind), t>> : <<a, t>> \in
        {<<a, t>> \in (DOMAIN schedule) \X
                UNION {EntrySlots(schedule[x]) : x \in DOMAIN schedule} :
            /\ t \in EntrySlots(schedule[a])
            /\ \E b \in DOMAIN schedule :
                  /\ b # a
                  /\ EntryResource(schedule[b], kind)
                        = EntryResource(schedule[a], kind)
                  /\ t \in EntrySlots(schedule[b])}}

\* room_map = {r['name']: r}.get(room, {}).get('capacity', 0)
CapacityOfName(room) ==
    LET hits == {r \in 1..NRooms : inp.rooms[r].name = room} IN
    IF hits = {} THEN 0
    ELSE inp.rooms[CHOOSE r \in hits : \A q \in hits : q <= r].capacity

TypeAvailable(type) ==
    LET labs == Cardinality({r \in 1..NRooms : HasWord("lab", inp.rooms[r].name)})
    IN CASE type = "lab" -> labs
         [] type = "lecture" -> NRooms - labs
         [] OTHER -> NRooms

detect_clashes(schedule) ==
    LET roomed == [a \in {x \in DOMAIN schedule : schedule[x].room # None}
                      |-> schedule[a]]
        slots == UNION {EntrySlots(schedule[x]) : x \in DOMAIN schedule}
        typecount(type, t) ==
            Cardinality({a \in DOMAIN schedule :
                /\ SessType(schedule[a].meta.name) = type
                /\ t \in EntrySlots(schedule[a])})
    IN [faculty |-> SharedKeys(schedule, "faculty"),
        group |-> SharedKeys(schedule, "group"),
        room |-> SharedKeys(roomed, "room"),
        room_capacity |->
            {[sid |-> a, room |-> schedule[a].room] : a \in
                {x \in DOMAIN roomed :
                    /\ GroupSizesGiven
                    /\ SizeOf(schedule[x].meta.group)
                          > CapacityOfName(schedule[x].room)}}
            \cup {[type |-> k[1], slot |-> k[2]] : k \in
                    {<<type, t>> \in {"lab", "lecture", "elective"} \X slots :
                        /\ typecount(type, t) > 0
                        /\ typecount(type, t) > TypeAvailable(type)}}]

(* ------------------------------- claims ------------------------------- *)
HasPlacement == DOMAIN feasible # {}
StartOf(i) == feasible[sessions[i].sess_id].start
PlacedSlots(i) == SlotRange(StartOf(i), sessions[i].length)
Success == pc = "done"

\* C1: on every successful run detect_clashes of the returned schedule has
\* empty faculty, group, room and room_capacity lists.
C1_NoClashes ==
    Success =>
        LET c == detect_clashes(result) IN
        c.faculty = {} /\ c.group = {} /\ c.room = {} /\ c.room_capacity = {}

\* C2: in a placement the solver returned, two distinct sessions of one
\* faculty, and two distinct sessions of one group, occupy disjoint slot
\* ranges [start, start + length).
C2_SolverNoOverlap ==
    HasPlacement =>
        \A i, j \in SessIdx :
            ( /\ i # j
              /\ \/ sessions[i].faculty = sessions[j].faculty
                 \/ sessions[i].group = sessions[j].group )
            => PlacedSlots(i) \cap PlacedSlots(j) = {}

C2_Witness ==
    /\ pc = "solved"
    /\ \E i, j \in SessIdx :
          /\ sessions[i].faculty = sessions[j].faculty
          /\ sessions[i].group # sessions[j].group
          /\ DayOf(StartOf(i)) = DayOf(StartOf(j))
    /\ \E i, j \in SessIdx :
          /\ sessions[i].group = sessions[j].group
          /\ sessions[i].faculty # sessions[j].faculty
          /\ DayOf(StartOf(i)) = DayOf(StartOf(j))

\* C3: on every successful run no session of the returned schedule crosses a
\* day boundary: start mod P + length <= P.
C3_NoDayCrossing ==
    Success =>
        \A sid \in DOMAIN result :
            (result[sid].start % SlotsPerDay) + result[sid].length
                <= SlotsPerDay

ResultDays(g) ==
    {DayOf(result[sid].start) :
        sid \in {x \in DOMAIN result : result[x].meta.group = g}}

\* C4: on every successful run every group of the returned schedule starts
\* sessions on at least min(min_group_days, D) distinct days.
C4_MinGroupDays ==
    Success =>
        \A g \in {result[sid].meta.group : sid \in DOMAIN result} :
            Cardinality(ResultDays(g)) >= Min2(inp.min_group_days, NDays)

DayLoad(idxs, d) ==
    SumOver({i \in idxs : DayOf(StartOf(i)) = d}, LengthOf)

\* C5: in a placement the solver returned, the lengths of a group's sessions
\* starting on one day sum to at most max_classes_per_day, those of a
\* faculty's sessions to at most max_daily_hours_per_faculty.
C5_DailyCaps ==
    HasPlacement =>
        \A d \in 0..(NDays - 1) :
            /\ \A g \in GroupsIn(SessIdx) :
                  DayLoad({i \in SessIdx : sessions[i].group = g}, d)
                      <= inp.max_classes_per_day
            /\ \A f \in FacultiesOf(SessIdx) :
                  DayLoad({i \in SessIdx : sessions[i].faculty = f}, d)
                      <= inp.max_daily_hours_per_faculty

C5_Witness ==
    /\ pc = "solved"
    /\ inp.max_classes_per_day = 1
    /\ inp.max_daily_hours_per_faculty = 1
    /\ \E i, j \in SessIdx : i # j /\ sessions[i].group = sessions[j].group
    /\ \E i, j \in SessIdx : i # j /\ sessions[i].faculty = sessions[j].faculty

PlacedDays(g) ==
    {DayOf(StartOf(i)) : i \in {j \in SessIdx : sessions[j].group = g}}

\* C6: in a placement the solver returned, used[g, d] is true exactly when a
\* session of group g starts on day d, and every group has sessions starting
\* on at least min(min_group_days, D) distinct days.
C6_MinDaysSolver ==
    HasPlacement =>
        /\ \A k \in UsedKeys : used[k] <=> k[2] \in PlacedDays(k[1])
        /\ \A g \in GroupsIn(SessIdx) :
              /\ Cardinality({d \in 0..(NDays - 1) : used[<<g, d>>]})
                    >= Min2(inp.min_group_days, NDays)
              /\ Cardinality(PlacedDays(g)) >= Min2(inp.min_group_days, NDays)

C6_Witness ==
    /\ pc = "solved"
    /\ NDays = 2
    /\ \E g, h \in GroupsIn(SessIdx) :
          /\ used[<<g, 0>>] /\ used[<<g, 1>>]
          /\ ~used[<<h, 0>>]

FacultyLoad(f) == SumOver({i \in SessIdx : sessions[i].faculty = f}, LengthOf)
OverSubscribed ==
    \E f \in FacultiesOf(SessIdx) :
        FacultyLoad(f) > inp.max_weekly_hours_per_faculty
PastSolver == pc \notin {"start", "expanded"} /\ sessions # <<>>

\* C7 as stated: a placement exists only when every faculty's total length is
\* within max_weekly_hours_per_faculty, and an over-subscribed faculty makes
\* the call fail with the Infeasible error.
C7_OverloadInfeasible ==
    PastSolver =>
        /\ HasPlacement => ~OverSubscribed
        /\ OverSubscribed => (pc = "failed" /\ error = "Infeasible")

\* C7 amended: a placement exists only when every faculty's total length is
\* within max_weekly_hours_per_faculty; an over-subscribed faculty makes the
\* call fail without a schedule: with the Infeasible error when every session
\* fits in a day, with the ValueError of the empty start domain when some
\* session is longer than a day.
C7_OverloadFails ==
    PastSolver =>
        /\ HasPlacement => ~OverSubscribed
        /\ OverSubscribed =>
              /\ pc = "failed"
              /\ IF \E i \in SessIdx : sessions[i].length > SlotsPerDay
                 THEN error = "ValueError"
                 ELSE error = "Infeasible"

C7_Witness ==
    /\ OverSubscribed
    /\ pc = "failed" /\ error = "Infeasible"
    /\ NDays = 2 /\ SlotsPerDay = 2
    /\ inp.min_group_days = 1

AssignedTo(r) ==
    {sid \in DOMAIN assignment.map : assignment.map[sid] = inp.rooms[r].name}
SidSlots(sid) ==
    SlotRange(feasible[sid].start, sessions[LastIdx(sid)].length)
AssignedSlots(r) == UNION {SidSlots(sid) : sid \in AssignedTo(r)}

C8_State ==
    /\ (pc = "greedy" \/ assignment.state = "returned") =>
          \A r \in 1..NRooms : room_schedule[r] = AssignedSlots(r)
    /\ assignment.state = "returned" =>
          /\ DOMAIN assignment.map = SidSet
          /\ \A a, b \in SidSet :
                (a # b /\ assignment.map[a] = assignment.map[b])
                    => SidSlots(a) \cap SidSlots(b) = {}

C8_Grows ==
    pc = "greedy" =>
        \A r \in 1..NRooms : room_schedule[r] \subseteq room_schedule'[r]

\* C8: an assignment greedy_room_assignment returns gives every session a
\* room and no room to two sessions whose slot ranges intersect; at every
\* step of its loop each room's occupied set is the union of the ranges of
\* the sessions assigned to it so far, and it only grows.
C8_GreedyRooms == []C8_State /\ [][C8_Grows]_vars

C8_Witness ==
    /\ assignment.state = "returned"
    /\ \E a, b \in SidSet :
          /\ a # b
          /\ SidSlots(a) \cap SidSlots(b) # {}
          /\ assignment.map[a] # assignment.map[b]
    /\ \E r \in 1..NRooms : room_schedule[r] # {}

\* C9: in an assignment greedy_room_assignment returns, every session's
\* group size is at most the capacity of its room.
C9_GreedyCapacity ==
    assignment.state = "returned" =>
        \A i \in SessIdx :
            SizeOf(sessions[i].group)
                <= CapacityOfName(assignment.map[sessions[i].sess_id])

\* a free room of the preferred kind was passed over for being too small
C9_Witness ==
    /\ assignment.state = "returned"
    /\ \E i \in SessIdx : \E r \in 1..NRooms :
          /\ ~RoomMismatch(sessions[i], r)
          /\ inp.rooms[r].capacity < SizeOf(sessions[i].group)
          /\ room_schedule[r] = {}
          /\ assignment.map[sessions[i].sess_id] # inp.rooms[r].name
          /\ RoomMismatch(sessions[i],
                CHOOSE q \in 1..NRooms :
                    inp.rooms[q].name = assignment.map[sessions[i].sess_id])

\* C10: on every successful run with group_sizes supplied, every entry of
\* the returned schedule that has a room holds a group no larger than the
\* room's capacity.
C10_OutputCapacity ==
    (Success /\ GroupSizesGiven) =>
        \A sid \in DOMAIN result :
            result[sid].room # None =>
                SizeOf(result[sid].meta.group)
                    <= CapacityOfName(result[sid].room)

(* ------------------------------ expansion ----------------------------- *)
Expanded == pc # "start" /\ error # "InvalidInput"
CourseAt(ci) == inp.courses[ci]
PairOf(c, g) ==
    {i \in SessIdx : sessions[i].course_id = c.id /\ sessions[i].group = g}

\* C11: once expand_courses has returned, every (course, group) pair has n
\* sessions of length 1 when k = 1 and n/k sessions of length k when k > 1,
\* their lengths sum to n, every session belongs to such a pair, and a single
\* group identifier expands as the one-element list of it does.
C11_ExpandCounts ==
    Expanded =>
        /\ \A ci \in DOMAIN inp.courses : \A g \in Range(GroupsOf(CourseAt(ci))) :
              LET c == CourseAt(ci) IN
              /\ Cardinality(PairOf(c, g)) =
                    IF c.consecutive = 1 THEN c.weekly_slots
                    ELSE c.weekly_slots \div c.consecutive
              /\ \A i \in PairOf(c, g) : sessions[i].length = c.consecutive
              /\ SumOver(PairOf(c, g), LengthOf) = c.weekly_slots
        /\ \A i \in SessIdx : \E ci \in DOMAIN inp.courses :
              /\ sessions[i].course_id = CourseAt(ci).id
              /\ sessions[i].group \in Range(GroupsOf(CourseAt(ci)))
        /\ \A ci \in DOMAIN inp.courses :
              ~CourseAt(ci).group.is_list =>
                  expand_courses(<<CourseAt(ci)>>) =
                      expand_courses(<<[CourseAt(ci) EXCEPT
                          !.group = Many(<<CourseAt(ci).group.id>>)]>>)

C11_Witness ==
    /\ pc = "expanded"
    /\ \E ci, cj \in DOMAIN inp.courses :
          /\ CourseAt(ci).group.is_list /\ Len(GroupsOf(CourseAt(ci))) = 2
          /\ CourseAt(ci).consecutive = 2 /\ CourseAt(ci).weekly_slots = 2
          /\ ~CourseAt(cj).group.is_list /\ CourseAt(cj).consecutive = 1
    /\ NSess = 3

\* C12: a course list that holds a course whose weekly_slots is not divisible
\* by consecutive, at any position, makes expand_courses fail with
\* InvalidInput and yield no sessions.
C12_IndivisibleFails ==
    (/\ pc # "start"
     /\ \E ci \in DOMAIN inp.courses :
           CourseAt(ci).weekly_slots % CourseAt(ci).consecutive # 0)
        => (pc = "failed" /\ error = "InvalidInput" /\ sessions = <<>>)

(* --------------------------- returned schedule ------------------------ *)
\* C13: a returned schedule has exactly one entry per expanded session,
\* under the session's id, with the session's length and the session as
\* meta; without the GA its start is the solver's and its room the one the
\* greedy assignment gave, or absent.
C13_ScheduleShape ==
    Success =>
        /\ DOMAIN result = SidSet
        /\ Cardinality(SidSet) = NSess
        /\ \A i \in SessIdx :
              /\ result[sessions[i].sess_id].length = sessions[i].length
              /\ result[sessions[i].sess_id].meta = sessions[i]
        /\ ~inp.use_ga =>
              \A sid \in SidSet :
                  /\ result[sid].start = feasible[sid].start
                  /\ result[sid].room =
                        IF assignment.state = "returned"
                        THEN assignment.map[sid] ELSE None

C13_Witness ==
    /\ Success /\ inp.use_ga
    /\ NSess = 2 /\ sessions[1].length # sessions[2].length
    /\ hof[1].ind # SeedGenome

(* ------------------------------ hall of fame -------------------------- *)
InGA == pc = "ga" \/ (pc = "done" /\ inp.use_ga)
SeedFitness == Evaluate(SeedGenome)

C14_State ==
    InGA =>
        /\ hof[1].fit = Evaluate(hof[1].ind)
        /\ hof[1].fit <= SeedFitness
        /\ \A k \in 1..Len(pop) : hof[1].fit <= Evaluate(pop[k])
        /\ hof[1].ind # SeedGenome => hof[1].fit < SeedFitness
        /\ pc = "done" => result = decode_ind(hof[1].ind)

C14_Step == (pc = "ga" /\ pc' # "failed") => hof'[1].fit <= hof[1].fit

\* C14: the hall-of-fame fitness never increases from one generation to the
\* next, is at most the fitness of the seed and of every individual of every
\* evaluated population, and the holder is the seed unless an evaluated
\* individual was strictly better; the holder is what is decoded and returned.
C14_HallOfFame == []C14_State /\ [][C14_Step]_vars

C14_Witness ==
    /\ pc = "done" /\ inp.use_ga /\ gen = 1
    /\ hof[1].ind # SeedGenome
    /\ hof[1].ind \notin Range(pop)

\* the first member of population p with the least fitness
FirstBest(p) ==
    p[CHOOSE k \in 1..Len(p) :
        /\ \A j \in 1..Len(p) : Evaluate(p[k]) <= Evaluate(p[j])
        /\ \A j \in 1..(k - 1) : Evaluate(p[j]) > Evaluate(p[k])]

\* C19 as stated: with ngen = 0 the returned schedule is the decoded seed,
\* whatever the sampled individuals are.
C19_SeedReturned ==
    (pc = "done" /\ inp.use_ga /\ inp.ngen = 0)
        => result = decode_ind(SeedGenome)

\* C19 amended: with ngen = 0 the returned schedule is the decoded first
\* least-fitness member of the initial population: the seed when no sampled
\* individual has a strictly lower fitness than the seed, else such a
\* sampled individual.
C19_BestOfInitial ==
    (pc = "done" /\ inp.use_ga /\ inp.ngen = 0) =>
        /\ pop[1] = SeedGenome
        /\ result = decode_ind(FirstBest(pop))
        /\ (\A k \in 1..Len(pop) : Evaluate(pop[k]) >= SeedFitness)
              => result = decode_ind(SeedGenome)

C19_Witness ==
    /\ pc = "done" /\ inp.use_ga /\ inp.ngen = 0
    /\ HardPenalty(SeedGenome) = 0
    /\ assignment.state = "returned"
    /\ hof[1].ind # SeedGenome

(* ------------------------------- the seed ----------------------------- *)
\* C15: the genome that encodes the placement of the solver and the room
\* stage (rooms assigned, or absent because the stage was skipped or failed)
\* has hard penalty 0.
C15_SeedHardZero == pc = "ga" => HardPenalty(SeedGenome) = 0

\* C20: decoding the encoded placement gives every session the start and the
\* room it had before encoding, an absent room included.
C20_RoundTrip ==
    pc = "ga" =>
        \A sid \in SidSet :
            /\ decode_ind(SeedGenome)[sid].start = feasible[sid].start
            /\ decode_ind(SeedGenome)[sid].room = feasible[sid].room

(* ------------------------- failed room assignment --------------------- *)
GreedyFailed == assignment.state = "failed"

Roomless(f) == \A sid \in DOMAIN f : f[sid].room = None

\* C16: when greedy_room_assignment returns its failure sentinel the call
\* goes on without an error: every session keeps the solver's start, every
\* room stays absent (the rooms given before the failure are dropped), and
\* with use_ga False exactly that placement without rooms is returned.
C16_State ==
    GreedyFailed =>
        /\ error = None
        /\ DOMAIN feasible = SidSet
        /\ Roomless(feasible)
        /\ ~inp.use_ga => pc \in {"rooms_done", "done"}
        /\ (pc = "done" /\ ~inp.use_ga) =>
              /\ DOMAIN result = SidSet
              /\ \A sid \in SidSet :
                    /\ result[sid].start = feasible[sid].start
                    /\ result[sid].room = None

C16_Step ==
    (pc = "greedy" /\ assignment'.state = "failed") =>
        /\ pc' = "rooms_done"
        /\ error' = None
        /\ DOMAIN feasible' = DOMAIN feasible
        /\ \A sid \in DOMAIN feasible :
              feasible'[sid].start = feasible[sid].start

C16_GreedyFailureKept == []C16_State /\ [][C16_Step]_vars

\* a second session found no room after the first one had been given one
C16_Witness ==
    /\ pc = "done" /\ ~inp.use_ga
    /\ GreedyFailed
    /\ gpos > 1
    /\ \E r \in 1..NRooms : room_schedule[r] # {}

(* ------------------------------ stage order --------------------------- *)
\* the statements of generate_timetable in program order
StageSteps ==
    {<<"start", "expanded">>, <<"expanded", "solved">>,
     <<"solved", "greedy">>, <<"solved", "rooms_done">>,
     <<"greedy", "rooms_done">>, <<"rooms_done", "ga">>,
     <<"rooms_done", "done">>, <<"ga", "done">>}

RoomStageRan == assignment # Unassigned \/ sess_list # <<>> \/ room_schedule # <<>>

GARan == pop # <<>> \/ hof # <<>> \/ gen # 0

\* C17: the stages run in the order expansion, solver, room assignment, GA;
\* a failed expansion or a solver without a placement ends the call with an
\* error at that stage: neither the room stage nor the GA has run or runs
\* afterwards, and no schedule is returned.
C17_State ==
    /\ error # None <=> pc = "failed"
    /\ pc \in {"start", "expanded"} =>
          feasible = <<>> /\ ~RoomStageRan /\ ~GARan /\ result = <<>>
    /\ pc \in {"solved", "greedy", "rooms_done"} =>
          feasible # <<>> /\ ~GARan /\ result = <<>>
    /\ pc = "solved" => ~RoomStageRan
    /\ pc = "ga" => feasible # <<>> /\ pop # <<>> /\ result = <<>>
    /\ result # <<>> => pc = "done"
    /\ pc = "failed" => result = <<>>
    /\ (pc = "failed" /\ error = "InvalidInput") =>
          sessions = <<>> /\ feasible = <<>> /\ ~RoomStageRan /\ ~GARan
    /\ (pc = "failed" /\ feasible = <<>>) =>
          /\ error \in {"InvalidInput", "Infeasible", "ValueError"}
          /\ ~RoomStageRan /\ ~GARan

C17_Step ==
    /\ pc' # pc =>
          \/ <<pc, pc'>> \in StageSteps
          \/ pc = "start" /\ pc' = "failed" /\ error' = "InvalidInput"
          \/ pc = "expanded" /\ pc' = "failed"
                /\ error' \in {"Infeasible", "ValueError"}
          \/ pc = "ga" /\ pc' = "failed"
    /\ pc \in {"failed", "done"} => UNCHANGED vars

C17_StageOrder == []C17_State /\ [][C17_Step]_vars

\* the solver gave no placement to a call that asked for rooms and the GA
C17_Witness ==
    /\ pc = "failed" /\ error = "Infeasible"
    /\ NSess >= 2
    /\ inp.use_ga /\ inp.assign_rooms /\ GroupSizesGiven
    /\ ~RoomStageRan /\ ~GARan /\ result = <<>>

(* ------------------------------ determinism --------------------------- *)
\* C18: two calls of generate_timetable with identical arguments return
\* identical schedules; the result does not depend on unseeded random
\* choices of the GA (initial population, crossover, mutation, selection).
C18_Deterministic == (pc = "done" /\ prev.called) => result = prev.result

(* ------------------------------ gene packing -------------------------- *)
\* C21: every room index packed into a gene is below the multiplier (a
\* longer room list is rejected or the multiplier widened), so decoding a
\* gene of the seed gives back exactly the start and the room index that
\* were encoded.
C21_GeneRoundTrip ==
    pc = "ga" =>
        \A i \in SessIdx :
            /\ RoomIndexOf(feasible[sessions[i].sess_id].room) < GeneBase
            /\ GeneStart(pop[1][i]) = feasible[sessions[i].sess_id].start
            /\ GeneRoom(pop[1][i])
                  = RoomIndexOf(feasible[sessions[i].sess_id].room)

(* --------------------------- too few sessions ------------------------- *)
SessionsOfGroup(g) == {i \in Survivors : sessions[i].group = g}

FewSessions ==
    \E g \in GroupsIn(SessIdx) :
        Cardinality(SessionsOfGroup(g)) < Min2(inp.min_group_days, NDays)

\* C22: when some group has fewer sessions than min(min_group_days, D) no
\* placement comes back from the solver and the call fails, whatever the
\* other inputs are; a group with exactly that many sessions is placed with
\* its sessions on pairwise distinct days.
C22_TooFewSessions ==
    /\ (pc \notin {"start", "expanded"} /\ FewSessions) =>
          /\ pc = "failed"
          /\ error \in {"Infeasible", "ValueError"}
          /\ feasible = <<>>
          /\ result = <<>>
    /\ HasPlacement =>
          \A g \in GroupsIn(SessIdx) :
              Cardinality(SessionsOfGroup(g)) = Min2(inp.min_group_days, NDays)
                  => \A i, j \in SessionsOfGroup(g) :
                        i # j => DayOf(StartOf(i)) # DayOf(StartOf(j))

\* a cohort with one session on a two-day calendar, beside a cohort that has
\* enough sessions, and no other reason for the solver to give up
C22_Witness ==
    /\ pc = "failed" /\ error = "Infeasible"
    /\ NDays = 2 /\ inp.min_group_days >= 2
    /\ \E g, h \in GroupsIn(SessIdx) :
          /\ Cardinality(SessionsOfGroup(g)) = 1
          /\ Cardinality(SessionsOfGroup(h)) = 2
    /\ Placements # {}

(* --------------------------- faculty preferences ---------------------- *)
\* C23: when faculty_prefs is supplied, the fitness the GA minimises in that
\* run is ga_fitness with those preferences: 20 of soft penalty for every
\* session whose in-day position is outside its teacher's preferred half.
C23_PrefsCounted ==
    pc = "ga" =>
        /\ \A k \in 1..Len(pop) :
              Evaluate(pop[k]) = ga_fitness(pop[k], inp.faculty_prefs)
        /\ hof[1].fit = ga_fitness(hof[1].ind, inp.faculty_prefs)

(* ------------------------------ post-condition ------------------------ *)
HasClashes(schedule) ==
    LET c == detect_clashes(schedule) IN
    c.faculty # {} \/ c.group # {} \/ c.room # {} \/ c.room_capacity # {}

\* C24: generate_timetable runs the clash detector on the schedule it is
\* about to return, and a non-empty clash list makes the call fail with
\* InternalAssertion instead of returning that schedule.
C24_PostCondition ==
    HasClashes(result) => (pc = "failed" /\ error = "InternalAssertion")

(* -------------------------------- duplicates -------------------------- *)
DuplicateCourseIds ==
    \E i, j \in 1..Len(inp.courses) :
        i # j /\ inp.courses[i].id = inp.courses[j].id

DuplicateRoomNames ==
    \E i, j \in 1..NRooms : i # j /\ inp.rooms[i].name = inp.rooms[j].name

\* C25: a course list with two courses of one id, and a room list with two
\* rooms of one name, are rejected with InvalidInput before the solver runs;
\* no returned schedule has two expanded sessions under one id and entry.
C25_DuplicatesRejected ==
    /\ (pc # "start" /\ (DuplicateCourseIds \/ DuplicateRoomNames)) =>
          (pc = "failed" /\ error = "InvalidInput")
    /\ Success => Cardinality(DOMAIN result) = NSess

(* ------------------------------ greedy order -------------------------- *)
\* session s may go to room q: capacity and free slots, before the step
Qualifies(s, q) ==
    /\ inp.rooms[q].capacity >= SizeOf(s.group)
    /\ \A off \in 0..(s.length - 1) :
          (feasible[s.sess_id].start + off) \notin room_schedule[q]

GreedyOrdered ==
    \A a, b \in 1..Len(sess_list) :
        a < b =>
            LET x == sessions[sess_list[a]]
                y == sessions[sess_list[b]]
            IN /\ x.length >= y.length
               /\ x.length = y.length => SizeOf(x.group) >= SizeOf(y.group)

C26_State ==
    pc = "greedy" =>
        /\ {sess_list[k] : k \in 1..Len(sess_list)} = SessIdx
        /\ Len(sess_list) = NSess
        /\ GreedyOrdered

C26_Step ==
    (pc = "greedy" /\ gpos <= Len(sess_list)) =>
        LET s == sessions[sess_list[gpos]] IN
        /\ assignment'.state = "failed" =>
              \A q \in 1..NRooms : ~Qualifies(s, q)
        /\ gpos' = gpos + 1 =>
              \E r \in 1..NRooms :
                  /\ Qualifies(s, r)
                  /\ assignment'.map[s.sess_id] = inp.rooms[r].name
                  /\ room_schedule' =
                        [room_schedule EXCEPT
                            ![r] = @ \cup SlotRange(feasible[s.sess_id].start,
                                                    s.length)]
                  /\ \A q \in 1..NRooms :
                        (q # r /\ Qualifies(s, q)) =>
                            /\ ~RoomMismatch(s, q) => ~RoomMismatch(s, r)
                            /\ RoomMismatch(s, q) = RoomMismatch(s, r) => r < q
                  /\ \A k \in 1..NRooms :
                        (RoomOrder(s)[k] # r /\ Qualifies(s, RoomOrder(s)[k]))
                            => \E m \in 1..(k - 1) : RoomOrder(s)[m] = r

\* C26: greedy_room_assignment takes the sessions by non-increasing length
\* and, at equal length, non-increasing group size, and gives each the first
\* room, preferred-kind rooms in list order before the others in list order,
\* that holds the group and is free over the session's slots; a room of the
\* other kind is taken only when no preferred-kind room qualifies.
C26_GreedyOrder == []C26_State /\ [][C26_Step]_vars

\* the second session of the list (longer, or larger) went first and took
\* the second room, the one of its kind, although the first would have held it
C26_Witness ==
    /\ pc = "greedy" /\ gpos = 2
    /\ sess_list[1] = 2
    /\ NRooms = 2
    /\ inp.rooms[1].capacity >= SizeOf(sessions[2].group)
    /\ room_schedule[1] = {} /\ room_schedule[2] # {}

(* --------------------- daily counts of fitness and solver ------------- *)
\* start vectors in which no session crosses a day boundary and the
\* sessions of one group do not overlap
GroupCleanStarts ==
    {st \in [SessIdx -> 0..(TotalSlots - 1)] :
        /\ \A i \in SessIdx : st[i] \in possible_starts(sessions[i].length)
        /\ NoOverlapGroup(st)}

\* the sum the solver bounds: lengths of the group's sessions starting on d
SolverDayCount(st, g, d) ==
    SumOver({i \in Survivors : sessions[i].group = g /\ DayOf(st[i]) = d},
            LengthOf)

GenomeOf(st) == [i \in SessIdx |-> st[i] * GeneBase]

\* C27: in every placement whose sessions of a group do not overlap and do
\* not cross a day boundary, the number of distinct in-day slots of a group
\* on a day (what ga_fitness compares with max_classes_per_day) is the sum
\* of the lengths of its sessions starting that day (what the solver
\* bounds); so a placement the solver returned has no group-daily-overflow
\* penalty under the same max_classes_per_day.
C27_DailyCountsAgree ==
    /\ pc = "expanded" =>
          \A st \in GroupCleanStarts :
              \A g \in GroupsIn(SessIdx) : \A d \in 0..(NDays - 1) :
                  Cardinality(DaySlots(GenomeOf(st), g, d))
                      = SolverDayCount(st, g, d)
    /\ pc = "solved" => GroupOverflowPenalty(SeedGenome) = 0

\* the solver put two sessions of one cohort on one day, beside a block
C27_Witness ==
    /\ pc = "solved"
    /\ \E i, j \in SessIdx :
          /\ i # j
          /\ sessions[i].group = sessions[j].group
          /\ DayOf(StartOf(i)) = DayOf(StartOf(j))
    /\ \E i \in SessIdx : sessions[i].length > 1

(* ------------------------------ no backtracking ----------------------- *)
\* f gives every session a room that holds its group, and no room to two
\* sessions whose slots intersect
ValidRooming(f) ==
    /\ \A i \in SessIdx :
          inp.rooms[f[i]].capacity >= SizeOf(sessions[i].group)
    /\ \A i, j \in SessIdx :
          (i # j /\ f[i] = f[j]) => PlacedSlots(i) \cap PlacedSlots(j) = {}

C28_Step ==
    pc = "greedy" =>
        /\ assignment'.state # "failed" =>
              \A sid \in DOMAIN assignment.map :
                  /\ sid \in DOMAIN assignment'.map
                  /\ assignment'.map[sid] = assignment.map[sid]
        /\ \A r \in 1..NRooms : room_schedule[r] \subseteq room_schedule'[r]
        /\ assignment'.state = "failed" =>
              /\ pc' = "rooms_done"
              /\ gpos' = gpos
              /\ \A q \in 1..NRooms :
                    ~Qualifies(sessions[sess_list[gpos]], q)

\* C28: greedy_room_assignment never revisits a choice: a room once given
\* stays given and a room's occupied slots are never released, and the
\* first session without a qualifying room ends the run with the failure
\* sentinel, also when another choice for an earlier session (longer, or
\* larger at equal length) would have left a room for it.
C28_NoBacktracking == [][C28_Step]_vars

\* the failure sentinel came back although a valid assignment exists
C28_Witness ==
    /\ assignment.state = "failed"
    /\ gpos > 1
    /\ \E f \in [SessIdx -> 1..NRooms] : ValidRooming(f)

(* ------------------------------ gene closure -------------------------- *)
GenesOf(p) == {p[k][i] : k \in 1..Len(p), i \in SessIdx}

SameGenes(x, y) ==
    \A v \in {x[i] : i \in SessIdx} \cup {y[i] : i \in SessIdx} :
        Cardinality({i \in SessIdx : x[i] = v})
            = Cardinality({i \in SessIdx : y[i] = v})

C29_State ==
    pc = "ga" =>
        /\ \A a, b \in 1..Len(pop) : \A c \in CxPoints : \A i \in SessIdx :
              Crossed(pop[a], pop[b], c)[i] \in {pop[a][i], pop[b][i]}
        /\ \A a \in 1..Len(pop) : \A m \in ShuffleFrom(pop[a], 1) :
              SameGenes(m, pop[a])
        /\ \A g \in GenesOf(pop) \cup GenesOf(<<hof[1].ind>>) :
              GeneRoom(g) \in 0..(NRooms - 1)

C29_Step ==
    (pc = "ga" /\ pc' = "ga") =>
        /\ GenesOf(pop') \subseteq GenesOf(pop)
        /\ GenesOf(<<hof'[1].ind>>) \subseteq GenesOf(pop) \cup GenesOf(<<hof[1].ind>>)

\* C29: in every generation every gene of every individual is a gene of
\* the population before it, hence of the initial population with its seed:
\* two-point crossover exchanges genes at equal positions, shuffle mutation
\* permutes the genes of one individual; no new (start, room) pair appears
\* and every decoded room index is an index of the room list.
C29_GenesFromInitial == []C29_State /\ [][C29_Step]_vars

\* after a generation the population holds an individual that is neither
\* the seed nor a copy of its neighbour
C29_Witness ==
    /\ pc = "ga" /\ gen = 1
    /\ pop[1] # SeedGenome
    /\ pop[1] # pop[2]
    /\ NSess = 2 /\ pop[1][1] # pop[1][2]

(* ------------------------------ sign of fitness ----------------------- *)
\* C30: ga_fitness never returns a negative value: every penalty term is
\* non-negative for every genome, the total-span gap term of a group
\* included.
C30_NonNegative ==
    pc = "ga" =>
        /\ \A k \in 1..Len(pop) : Evaluate(pop[k]) >= 0
        /\ hof[1].fit >= 0

====
